---- MODULE Spec2Model ----
(***************************************************************************)
(* A model of yamlet (src/yamlet.py): the document loader with its import  *)
(* trace, the lazy transform engine with its memo table, the expression    *)
(* evaluator with its lazy proxies, closures, and the numeric scalars.     *)
(*                                                                         *)
(* Three specifications share the module:                                  *)
(*   SpecLoad  - execute/parse/ParseContext.load over a small file tree    *)
(*   SpecEval  - Document.execute over two loaded documents                *)
(*   SpecArith - IntScalar/FloatScalar arithmetic                          *)
(* Spec is SpecEval.                                                       *)
(***************************************************************************)
EXTENDS Integers, Sequences, FiniteSets, TLC

VARIABLES
  \* ---- loader (ParseContext, parse, execute) ----
  fs,                \* file -> sequence of relative import paths (the files' text)
  rootPath,          \* the path handed to execute
  loaded_documents,  \* ParseContext.loaded_documents: path key -> 0 (None) | document id
  stack,             \* active parse() frames, innermost last
  reads,             \* file -> number of times it was opened and parsed
  docs,              \* the Document objects created so far (id = index)
  loadOutcome,       \* "idle" | "running" | "ok" | "ImportCycle" | "StackExhausted"
  \* ---- numeric scalars ----
  acc,               \* the scalar last produced
  lastOp,            \* the operation that produced it
  \* ---- transform / evaluation session (one Document.execute) ----
  transformed,       \* the memo table: <<node, scope>> -> object id
  heap,              \* the objects: the nodes yaml composed, then those created (id = index)
  frames,            \* the Scopes objects: those of parse, then the call scopes (id = index)
  log,               \* instrumentation: the calls made so far, in order
  resultNodes,       \* the expression of every element of the root document's result
  children,          \* the realized elements of the result so far
  status             \* "idle" | "running" | "done" | an error name

loadVars == <<fs, rootPath, loaded_documents, stack, reads, docs, loadOutcome>>
arithVars == <<acc, lastOp>>
evalVars == <<transformed, heap, frames, log, resultNodes, children, status>>
vars == <<fs, rootPath, loaded_documents, stack, reads, docs, loadOutcome,
          acc, lastOp,
          transformed, heap, frames, log, resultNodes, children, status>>

----------------------------------------------------------------------------
(* Bounds *)

MaxDepth == 6        \* depth of nested parse() frames the interpreter stack holds
MaxLit == 2          \* magnitude of the numeric literals tried
MaxMag == 4          \* magnitude of the arithmetic results followed
MaxResultLen == 2    \* elements of the root document's result sequence

----------------------------------------------------------------------------
(* Numbers.  A Python number is [cls, pyty, v]: cls is the Python class,    *)
(* v the value in units of 1/Scale (so 1.5 is 6), which makes the halves    *)
(* and their products exact.                                                *)

Scale == 2 * 2

PyInt(i) == [cls |-> "int", pyty |-> "int", v |-> i * Scale]
PyFloatHalves(n) == [cls |-> "float", pyty |-> "float", v |-> n * (Scale \div 2)]

None == [cls |-> "None"]
NotImplemented == [cls |-> "NotImplemented"]
TypeError == [cls |-> "TypeError"]

\* Python's own +, -, * on two numbers: float if either is a float.
PyArith(op, a, b) ==
  [pyty |-> IF a.pyty = "float" \/ b.pyty = "float" THEN "float" ELSE "int",
   v |-> CASE op = "+" -> a.v + b.v
           [] op = "-" -> a.v - b.v
           [] op = "*" -> (a.v * b.v) \div Scale]

PyNumber(n) == [cls |-> n.pyty, pyty |-> n.pyty, v |-> n.v]

\* IntScalar.__init__ / FloatScalar.__init__: the class fixes the tag, whatever
\* the Python type of the value stored.
IntScalar(value) ==
  [cls |-> "IntScalar", tag |-> "int", pyty |-> value.pyty, v |-> value.v]
FloatScalar(value) ==
  [cls |-> "FloatScalar", tag |-> "float", pyty |-> value.pyty, v |-> value.v]

\* The isinstance ladder shared by IntScalar.__add__/__sub__/__mul__.
IntScalarArith(op, self, other) ==
  IF other.cls = "int" THEN IntScalar(PyArith(op, self, other))
  ELSE IF other.cls = "float" THEN FloatScalar(PyArith(op, self, other))
  ELSE IF other.cls = "IntScalar" THEN IntScalar(PyArith(op, self, other))
  ELSE IF other.cls = "FloatScalar" THEN FloatScalar(PyArith(op, self, other))
  ELSE NotImplemented

\* The isinstance ladder shared by FloatScalar.__add__/__sub__/__mul__.
FloatScalarArith(op, self, other) ==
  IF other.cls \in {"int", "float", "IntScalar", "FloatScalar"}
  THEN FloatScalar(PyArith(op, self, other))
  ELSE NotImplemented

IntScalar_add(self, other) == IntScalarArith("+", self, other)
IntScalar_sub(self, other) == IntScalarArith("-", self, other)
IntScalar_mul(self, other) == IntScalarArith("*", self, other)
IntScalar_radd(self, other) == IntScalar_add(self, other)
IntScalar_rsub(self, other) == IntScalar_add(self, other)
IntScalar_rmul(self, other) == IntScalar_add(self, other)

FloatScalar_add(self, other) == FloatScalarArith("+", self, other)
FloatScalar_sub(self, other) == FloatScalarArith("-", self, other)
FloatScalar_mul(self, other) == FloatScalarArith("*", self, other)
FloatScalar_radd(self, other) == FloatScalar_add(self, other)
FloatScalar_rsub(self, other) == FloatScalar_add(self, other)
FloatScalar_rmul(self, other) == FloatScalar_add(self, other)

IsNumber(o) == o.cls \in {"int", "float"}
IsNumericScalar(o) == o.cls \in {"IntScalar", "FloatScalar"}

\* self.__add__(other) and friends, by the class of self.
Forward(op, self, other) ==
  IF self.cls = "IntScalar"
  THEN CASE op = "+" -> IntScalar_add(self, other)
         [] op = "-" -> IntScalar_sub(self, other)
         [] op = "*" -> IntScalar_mul(self, other)
  ELSE CASE op = "+" -> FloatScalar_add(self, other)
         [] op = "-" -> FloatScalar_sub(self, other)
         [] op = "*" -> FloatScalar_mul(self, other)

\* self.__radd__(other) and friends: evaluates  other <op> self.
Reflected(op, self, other) ==
  IF self.cls = "IntScalar"
  THEN CASE op = "+" -> IntScalar_radd(self, other)
         [] op = "-" -> IntScalar_rsub(self, other)
         [] op = "*" -> IntScalar_rmul(self, other)
  ELSE CASE op = "+" -> FloatScalar_radd(self, other)
         [] op = "-" -> FloatScalar_rsub(self, other)
         [] op = "*" -> FloatScalar_rmul(self, other)

\* What the interpreter does with  l <op> r  inside eval(): two numbers are
\* computed natively; a scalar on the left gets its forward method; a scalar on
\* the right of anything else gets its reflected method; NotImplemented from
\* every candidate is a TypeError.
BinaryOp(op, l, r) ==
  IF IsNumber(l) /\ IsNumber(r) THEN PyNumber(PyArith(op, l, r))
  ELSE IF IsNumericScalar(l) THEN
    LET f == Forward(op, l, r) IN IF f = NotImplemented THEN TypeError ELSE f
  ELSE IF IsNumericScalar(r) THEN
    LET g == Reflected(op, r, l) IN IF g = NotImplemented THEN TypeError ELSE g
  ELSE TypeError

\* A numeric scalar node of a document: [cls, tag, pyty, v], v being the number
\* its text spells and pyty the form of the text ("int" for 2, "float" for 1.5).
IntNode(i) == [cls |-> "ScalarNode", tag |-> "int", pyty |-> "int", v |-> i * Scale]
FloatNodeHalves(n) ==
  [cls |-> "ScalarNode", tag |-> "float", pyty |-> "float", v |-> n * (Scale \div 2)]

ValueError == [cls |-> "ValueError"]

\* transform, the scalar branches: int(node.value) / float(node.value) wrapped.
\* int() refuses a text in float form.
TransformScalar(node) ==
  IF node.tag = "int"
  THEN IF node.pyty = "float" THEN ValueError
       ELSE IntScalar([pyty |-> "int", v |-> node.v])
  ELSE IF node.tag = "float"
  THEN IntScalar([pyty |-> "float", v |-> node.v])
  ELSE node

\* convert, on a Python value that is no node already.
ConvertNative(value) ==
  IF value.cls = "int" THEN IntScalar(value)
  ELSE IF value.cls = "float" THEN FloatScalar(value)
  ELSE ValueError

----------------------------------------------------------------------------
(* SpecArith: numeric scalars obtained by transform or convert, then        *)
(* combined by the expression operators.                                    *)

IntLits == -MaxLit .. MaxLit
HalfLits == (-2 * MaxLit) .. (2 * MaxLit)

NumericNodes == {IntNode(i) : i \in IntLits} \cup {FloatNodeHalves(n) : n \in HalfLits}
NativeNumbers == {PyInt(i) : i \in IntLits} \cup {PyFloatHalves(n) : n \in HalfLits}

\* Everything an operand of an expression operator can be.
Operands ==
  NativeNumbers \cup {TransformScalar(n) : n \in NumericNodes}
                \cup {ConvertNative(n) : n \in NativeNumbers}

InRange(o) == o.v <= MaxMag * Scale /\ o.v >= -(MaxMag * Scale)

ArithInit ==
  /\ acc = None
  /\ lastOp = [kind |-> "none"]

\* transform(node, ...) on an Int- or Float-tagged scalar of a document.
ArithTransform ==
  \E node \in NumericNodes :
    /\ acc' = TransformScalar(node)
    /\ lastOp' = [kind |-> "transform", op |-> "", l |-> node, r |-> None, res |-> acc']
    /\ UNCHANGED <<loadVars, evalVars>>

\* convert(value) on a native number an expression produced.
ArithConvert ==
  \E n \in NativeNumbers :
    /\ acc' = ConvertNative(n)
    /\ lastOp' = [kind |-> "convert", op |-> "", l |-> n, r |-> None, res |-> acc']
    /\ UNCHANGED <<loadVars, evalVars>>

\* acc <op> r: the scalar is the left operand.
ArithForward ==
  \E op \in {"+", "-", "*"}, r \in Operands :
    /\ IsNumericScalar(acc)
    /\ acc' = BinaryOp(op, acc, r)
    /\ InRange(acc')
    /\ lastOp' = [kind |-> "forward", op |-> op, l |-> acc, r |-> r, res |-> acc']
    /\ UNCHANGED <<loadVars, evalVars>>

\* n <op> acc: a native number is the left operand, the scalar the right one.
ArithReflected ==
  \E op \in {"+", "-", "*"}, n \in NativeNumbers :
    /\ IsNumericScalar(acc)
    /\ acc' = BinaryOp(op, n, acc)
    /\ InRange(acc')
    /\ lastOp' = [kind |-> "reflected", op |-> op, l |-> n, r |-> acc, res |-> acc']
    /\ UNCHANGED <<loadVars, evalVars>>

----------------------------------------------------------------------------
(* SpecLoad: execute(path) -> parse -> ParseContext.load -> parse ...       *)
(* A path is the sequence of its components; the file tree is               *)
(*   a.yml   d.yml   sub/b.yml                                             *)

Files == { <<"a.yml">>, <<"d.yml">>, <<"sub", "b.yml">> }

\* The import paths a file of each directory may write, in document order.
RootDirImports == << <<"a.yml">>, <<"d.yml">>, <<"sub", "b.yml">> >>
SubDirImports == << <<"b.yml">>, <<"..", "a.yml">>, <<"..", "d.yml">> >>

Range(s) == {s[i] : i \in 1 .. Len(s)}
SubLists(s) ==
  LET Pick(T) == [i \in 1 .. Len(s) |-> s[i] \in T]
      RECURSIVE Keep(_, _)
      Keep(k, T) == IF k > Len(s) THEN <<>>
                    ELSE (IF s[k] \in T THEN <<s[k]>> ELSE <<>>) \o Keep(k + 1, T)
  IN {Keep(1, T) : T \in SUBSET Range(s)}

ImportLists(file) == IF Len(file) = 1 THEN SubLists(RootDirImports) ELSE SubLists(SubDirImports)

\* os.path.dirname and os.path.join on relative paths: no normalisation.
Dirname(path) == SubSeq(path, 1, Len(path) - 1)
Join(dir, rel) == dir \o rel

\* The file open(path) reaches: the operating system walks the components.
RECURSIVE Walk(_, _)
Walk(path, at) ==
  IF path = <<>> THEN at
  ELSE IF Head(path) = ".." /\ at # <<>> /\ at[Len(at)] # ".."
       THEN Walk(Tail(path), SubSeq(at, 1, Len(at) - 1))
       ELSE Walk(Tail(path), Append(at, Head(path)))
OpenFile(path) == Walk(path, <<>>)

Top == stack[Len(stack)]
ImpPath == Join(Dirname(Top.path), Head(Top.pending))

LoadInit ==
  /\ fs \in {f \in [Files -> UNION {ImportLists(x) : x \in Files}] :
               \A x \in Files : f[x] \in ImportLists(x)}
  /\ rootPath \in Files
  /\ loaded_documents = <<>>
  /\ stack = <<>>
  /\ reads = [f \in Files |-> 0]
  /\ docs = <<>>
  /\ loadOutcome = "idle"

\* execute(path): read the root, parse it under a fresh ParseContext.
Execute ==
  /\ loadOutcome = "idle"
  /\ reads' = [reads EXCEPT ![OpenFile(rootPath)] = @ + 1]
  /\ stack' = << [path |-> rootPath, trace |-> <<>>,
                  pending |-> fs[OpenFile(rootPath)], imports |-> <<>>] >>
  /\ loadOutcome' = "running"
  /\ UNCHANGED <<fs, rootPath, loaded_documents, docs>>
  /\ UNCHANGED <<arithVars, evalVars>>

\* ParseContext.load, path in loaded_documents and still None.
LoadCircular ==
  /\ loadOutcome = "running" /\ Top.pending # <<>>
  /\ ImpPath \in DOMAIN loaded_documents
  /\ loaded_documents[ImpPath] = 0
  /\ loadOutcome' = "ImportCycle"
  /\ stack' = <<>>
  /\ UNCHANGED <<fs, rootPath, loaded_documents, reads, docs>>
  /\ UNCHANGED <<arithVars, evalVars>>

\* ParseContext.load, path in loaded_documents and loaded: the cached Document.
LoadCached ==
  /\ loadOutcome = "running" /\ Top.pending # <<>>
  /\ ImpPath \in DOMAIN loaded_documents
  /\ loaded_documents[ImpPath] # 0
  /\ stack' = [stack EXCEPT ![Len(stack)] =
                 [@ EXCEPT !.pending = Tail(@),
                           !.imports = Append(@, loaded_documents[ImpPath])]]
  /\ UNCHANGED <<fs, rootPath, loaded_documents, reads, docs, loadOutcome>>
  /\ UNCHANGED <<arithVars, evalVars>>

\* ParseContext.load, first visit of the key: read, mark None, parse.
LoadFresh ==
  /\ loadOutcome = "running" /\ Top.pending # <<>>
  /\ ImpPath \notin DOMAIN loaded_documents
  /\ Len(stack) < MaxDepth
  /\ reads' = [reads EXCEPT ![OpenFile(ImpPath)] = @ + 1]
  /\ loaded_documents' = (ImpPath :> 0) @@ loaded_documents
  /\ stack' = Append(stack, [path |-> ImpPath, trace |-> Append(Top.trace, ImpPath),
                             pending |-> fs[OpenFile(ImpPath)], imports |-> <<>>])
  /\ UNCHANGED <<fs, rootPath, docs, loadOutcome>>
  /\ UNCHANGED <<arithVars, evalVars>>

\* The same first visit with the interpreter stack full: RecursionError.
LoadStackExhausted ==
  /\ loadOutcome = "running" /\ Top.pending # <<>>
  /\ ImpPath \notin DOMAIN loaded_documents
  /\ Len(stack) >= MaxDepth
  /\ loadOutcome' = "StackExhausted"
  /\ stack' = <<>>
  /\ UNCHANGED <<fs, rootPath, loaded_documents, reads, docs>>
  /\ UNCHANGED <<arithVars, evalVars>>

\* parse returns its Document; load caches it under the key and hands it to
\* the importing parse, execute takes it as the root.
ParseReturn ==
  /\ loadOutcome = "running" /\ Top.pending = <<>>
  /\ LET id == Len(docs) + 1
         doc == [path |-> Top.path, file |-> OpenFile(Top.path), imports |-> Top.imports]
     IN /\ docs' = Append(docs, doc)
        /\ IF Len(stack) = 1
           THEN /\ loadOutcome' = "ok"
                /\ stack' = <<>>
                /\ UNCHANGED loaded_documents
           ELSE /\ loaded_documents' = [loaded_documents EXCEPT ![Top.path] = id]
                /\ stack' = [SubSeq(stack, 1, Len(stack) - 1) EXCEPT ![Len(stack) - 1] =
                               [@ EXCEPT !.pending = Tail(@), !.imports = Append(@, id)]]
                /\ UNCHANGED loadOutcome
  /\ UNCHANGED <<fs, rootPath, reads>>
  /\ UNCHANGED <<arithVars, evalVars>>

\* The import graph on files, and whether a cycle is reachable from the root.
Imported(f) == {OpenFile(Join(Dirname(f), fs[f][i])) : i \in 1 .. Len(fs[f])}
RECURSIVE Closure(_)
Closure(S) ==
  LET T == S \cup UNION {Imported(f) : f \in S} IN IF T = S THEN S ELSE Closure(T)
HasCycleFromRoot == \E g \in Closure({OpenFile(rootPath)}) : g \in Closure(Imported(g))

----------------------------------------------------------------------------
(* SpecEval: Document.execute on a.yml, which imports lib.yml as lib.       *)
(*                                                                          *)
(* Expression text is held parsed: Name, Attr, Idx, Call, Bin and literals. *)

Name(n) == <<"name", n>>
Attr(e, k) == <<"attr", e, k>>
Idx(e, i) == <<"idx", e, i>>
Call(f, args) == <<"call", f, args>>
Bin(op, l, r) == <<"bin", op, l, r>>
IntLit(i) == <<"num", PyInt(i)>>
FloatLitHalves(n) == <<"num", PyFloatHalves(n)>>
StrLit(t) == <<"str", t>>

\* The nodes yaml composed for the two documents; a node's identity is its index.
Arena == <<
  \* 1: int 1
  IntNode(1),
  \* 2: float 1.5
  FloatNodeHalves(3),
  \* 3: str hello
  [cls |-> "ScalarNode", tag |-> "str", text |-> "hello"],
  \* 4: expr (x + 1)
  [cls |-> "ScalarNode", tag |-> "expr", ast |-> Bin("+", Name("x"), IntLit(1))],
  \* 5: str good
  [cls |-> "ScalarNode", tag |-> "str", text |-> "good"],
  \* 6: int 1
  IntNode(1),
  \* 7: str bad
  [cls |-> "ScalarNode", tag |-> "str", text |-> "bad"],
  \* 8: expr (undefined)
  [cls |-> "ScalarNode", tag |-> "expr", ast |-> Name("undefined")],
  \* 9: m: {good: 1, bad: (undefined)}
  [cls |-> "MappingNode", tag |-> "map", keys |-> <<5, 7>>, vals |-> <<6, 8>>],
  \* 10: str a
  [cls |-> "ScalarNode", tag |-> "str", text |-> "a"],
  \* 11: int 2
  IntNode(2),
  \* 12: str b
  [cls |-> "ScalarNode", tag |-> "str", text |-> "b"],
  \* 13: expr (x)
  [cls |-> "ScalarNode", tag |-> "expr", ast |-> Name("x")],
  \* 14: m2: {a: 2, b: (x)}
  [cls |-> "MappingNode", tag |-> "map", keys |-> <<10, 12>>, vals |-> <<11, 13>>],
  \* 15: int 3
  IntNode(3),
  \* 16: expr (e)
  [cls |-> "ScalarNode", tag |-> "expr", ast |-> Name("e")],
  \* 17: lst: [3, (e)]
  [cls |-> "SequenceNode", tag |-> "seq", items |-> <<15, 16>>],
  \* 18: str params
  [cls |-> "ScalarNode", tag |-> "str", text |-> "params"],
  \* 19: str n
  [cls |-> "ScalarNode", tag |-> "str", text |-> "n"],
  \* 20: params
  [cls |-> "SequenceNode", tag |-> "seq", items |-> <<19>>],
  \* 21: str result
  [cls |-> "ScalarNode", tag |-> "str", text |-> "result"],
  \* 22: expr (n + 1)
  [cls |-> "ScalarNode", tag |-> "expr", ast |-> Bin("+", Name("n"), IntLit(1))],
  \* 23: inc: !func {params: [n], result: (n + 1)}
  [cls |-> "MappingNode", tag |-> "func", keys |-> <<18, 21>>, vals |-> <<20, 22>>],
  \* 24: str params
  [cls |-> "ScalarNode", tag |-> "str", text |-> "params"],
  \* 25: str p
  [cls |-> "ScalarNode", tag |-> "str", text |-> "p"],
  \* 26: params
  [cls |-> "SequenceNode", tag |-> "seq", items |-> <<25>>],
  \* 27: str result
  [cls |-> "ScalarNode", tag |-> "str", text |-> "result"],
  \* 28: expr (p.a)
  [cls |-> "ScalarNode", tag |-> "expr", ast |-> Attr(Name("p"), "a")],
  \* 29: get: !func {params: [p], result: (p.a)}
  [cls |-> "MappingNode", tag |-> "func", keys |-> <<24, 27>>, vals |-> <<26, 28>>],
  \* 30: str result
  [cls |-> "ScalarNode", tag |-> "str", text |-> "result"],
  \* 31: expr (x)
  [cls |-> "ScalarNode", tag |-> "expr", ast |-> Name("x")],
  \* 32: cl: !func {result: (x)}
  [cls |-> "MappingNode", tag |-> "func", keys |-> <<30>>, vals |-> <<31>>],
  \* 33: str params
  [cls |-> "ScalarNode", tag |-> "str", text |-> "params"],
  \* 34: str x
  [cls |-> "ScalarNode", tag |-> "str", text |-> "x"],
  \* 35: params
  [cls |-> "SequenceNode", tag |-> "seq", items |-> <<34>>],
  \* 36: str result
  [cls |-> "ScalarNode", tag |-> "str", text |-> "result"],
  \* 37: expr (x)
  [cls |-> "ScalarNode", tag |-> "expr", ast |-> Name("x")],
  \* 38: sh: !func {params: [x], result: (x)}
  [cls |-> "MappingNode", tag |-> "func", keys |-> <<33, 36>>, vals |-> <<35, 37>>],
  \* 39: str params
  [cls |-> "ScalarNode", tag |-> "str", text |-> "params"],
  \* 40: str n
  [cls |-> "ScalarNode", tag |-> "str", text |-> "n"],
  \* 41: params
  [cls |-> "SequenceNode", tag |-> "seq", items |-> <<40>>],
  \* 42: str locals
  [cls |-> "ScalarNode", tag |-> "str", text |-> "locals"],
  \* 43: str k
  [cls |-> "ScalarNode", tag |-> "str", text |-> "k"],
  \* 44: expr (n + n)
  [cls |-> "ScalarNode", tag |-> "expr", ast |-> Bin("+", Name("n"), Name("n"))],
  \* 45: func locals
  [cls |-> "MappingNode", tag |-> "map", keys |-> <<43>>, vals |-> <<44>>],
  \* 46: str result
  [cls |-> "ScalarNode", tag |-> "str", text |-> "result"],
  \* 47: expr (k)
  [cls |-> "ScalarNode", tag |-> "expr", ast |-> Name("k")],
  \* 48: loc: !func {params: [n], locals: {k: (n + n)}, result: (k)}
  [cls |-> "MappingNode", tag |-> "func", keys |-> <<39, 42, 46>>, vals |-> <<41, 45, 47>>],
  \* 49: expr (undefined)
  [cls |-> "ScalarNode", tag |-> "expr", ast |-> Name("undefined")],
  \* 50: str params
  [cls |-> "ScalarNode", tag |-> "str", text |-> "params"],
  \* 51: str n
  [cls |-> "ScalarNode", tag |-> "str", text |-> "n"],
  \* 52: params
  [cls |-> "SequenceNode", tag |-> "seq", items |-> <<51>>],
  \* 53: nores: !func {params: [n]}
  [cls |-> "MappingNode", tag |-> "func", keys |-> <<50>>, vals |-> <<52>>],
  \* 54: expr (inc())
  [cls |-> "ScalarNode", tag |-> "expr", ast |-> Call(Name("inc"), <<>>)],
  \* 55: expr (x + 1)
  [cls |-> "ScalarNode", tag |-> "expr", ast |-> Bin("+", Name("x"), IntLit(1))],
  \* 56: int 10
  IntNode(10),
  \* 57: int 7
  IntNode(7),
  \* 58: expr (x + 1)
  [cls |-> "ScalarNode", tag |-> "expr", ast |-> Bin("+", Name("x"), IntLit(1))],
  \* 59: int 3
  IntNode(3),
  \* 60: str result
  [cls |-> "ScalarNode", tag |-> "str", text |-> "result"],
  \* 61: expr (x)
  [cls |-> "ScalarNode", tag |-> "expr", ast |-> Name("x")],
  \* 62: f: !func {result: (x)}
  [cls |-> "MappingNode", tag |-> "func", keys |-> <<60>>, vals |-> <<61>>],
  \* 63: str params
  [cls |-> "ScalarNode", tag |-> "str", text |-> "params"],
  \* 64: str n
  [cls |-> "ScalarNode", tag |-> "str", text |-> "n"],
  \* 65: params
  [cls |-> "SequenceNode", tag |-> "seq", items |-> <<64>>],
  \* 66: str result
  [cls |-> "ScalarNode", tag |-> "str", text |-> "result"],
  \* 67: expr (n * 2)
  [cls |-> "ScalarNode", tag |-> "expr", ast |-> Bin("*", Name("n"), IntLit(2))],
  \* 68: g: !func {params: [n], result: (n * 2)}
  [cls |-> "MappingNode", tag |-> "func", keys |-> <<63, 66>>, vals |-> <<65, 67>>],
  \* 69: result of a.yml: its elements are resultNodes
  [cls |-> "SequenceNode", tag |-> "seq", items |-> <<>>]
>>

root_map == <<
  [path |-> <<"a.yml">>, imports |-> ("lib" :> 2),
   locals |-> ("x" :> 1 @@ "h" :> 2 @@ "s" :> 3 @@ "e" :> 4 @@ "m" :> 9 @@
               "m2" :> 14 @@ "lst" :> 17 @@ "inc" :> 23 @@ "get" :> 29 @@
               "cl" :> 32 @@ "sh" :> 38 @@ "loc" :> 48 @@ "bad" :> 49 @@
               "nores" :> 53 @@ "badcall" :> 54),
   exports |-> ("y" :> 55),
   result |-> 69],
  [path |-> <<"lib.yml">>, imports |-> <<>>,
   locals |-> ("x" :> 56 @@ "secret" :> 57),
   exports |-> ("v" :> 58 @@ "w" :> 59 @@ "f" :> 62 @@ "g" :> 68),
   result |-> 0]
>>

NoScope == 0

\* Scopes.__init__
Scopes(items, parent, internal, self) ==
  [items |-> items, parent |-> parent,
   internal |-> IF internal = NoScope THEN self ELSE internal]

InternalScopeId(d) == 2 * d - 1
ExportsScopeId(d) == 2 * d

\* parse, after the imports are loaded: the internal and exports scopes and
\* the Document.
parse(d) ==
  [path |-> root_map[d].path, imports |-> root_map[d].imports,
   internal |-> InternalScopeId(d), exports |-> ExportsScopeId(d),
   result |-> root_map[d].result]

Documents == [d \in 1 .. Len(root_map) |-> parse(d)]

\* The scopes parse builds: internal = Scopes(exports + locals), then
\* exports = Scopes(exports, internal=internal), for every document.
StaticScopes ==
  [i \in 1 .. 2 * Len(root_map) |->
     IF i % 2 = 1
     THEN Scopes(root_map[(i + 1) \div 2].exports @@ root_map[(i + 1) \div 2].locals,
                 NoScope, NoScope, i)
     ELSE Scopes(root_map[i \div 2].exports, NoScope, i - 1, i)]

\* A session: the memo table, the objects (the parsed nodes first, then the
\* ones created), the scopes (those of parse first, then the call scopes) and
\* the log.
NewSession == [memo |-> <<>>, heap |-> Arena, frames |-> StaticScopes, log |-> <<>>]

Obj(s, id) == s.heap[id]
ScopeOf(s, id) == s.frames[id]
Alloc(s, o) == [s |-> [s EXCEPT !.heap = Append(@, o)], id |-> Len(s.heap) + 1]
Log(s, e) == [s EXCEPT !.log = Append(@, e)]
Ok(s, v) == [s |-> s, val |-> v, err |-> ""]
Fail(s, e) == [s |-> s, val |-> 0, err |-> e]

\* The values an expression computes with.
HObj(id) == [h |-> "obj", id |-> id]
HNum(n) == [h |-> "num", n |-> n]
HStr(t) == [h |-> "str", text |-> t]
LazyObj(o, imp) == [h |-> "LazyObj", o |-> o, imp |-> imp]
LazyMap(m) == [h |-> "LazyMap", m |-> m]

IsSequenceNode(o) == o.cls \in {"SequenceNode", "Sequence"}
IsMappingNode(o) == o.cls \in {"MappingNode", "Mapping"}
IsScalarNode(o) == o.cls \in {"ScalarNode", "IntScalar", "FloatScalar"}
IsNode(o) == IsSequenceNode(o) \/ IsMappingNode(o) \/ IsScalarNode(o)
is_str_scalar(o) == IsScalarNode(o) /\ o.tag = "str"

\* Scopes.has: "True", "False", or the AttributeError of self.parent.find.
ScopesHas(s, scope, name) ==
  LET sc == ScopeOf(s, scope)
  IN IF name \in DOMAIN sc.items THEN "True"
     ELSE IF sc.parent = NoScope THEN "False"
     ELSE "AttributeError"

\* props: [err, map], map being the dict of the mapping node.
props(s, node, keys, check_tag) ==
  IF node = 0 THEN [err |-> FALSE, map |-> <<>>]
  ELSE LET n == Obj(s, node)
       IN IF ~IsMappingNode(n) THEN [err |-> TRUE, map |-> <<>>]
          ELSE IF check_tag /\ n.tag # "map" THEN [err |-> TRUE, map |-> <<>>]
          ELSE IF \E i \in 1 .. Len(n.keys) : ~is_str_scalar(Obj(s, n.keys[i]))
          THEN [err |-> TRUE, map |-> <<>>]
          ELSE LET found == {Obj(s, n.keys[i]).text : i \in 1 .. Len(n.keys)}
               IN IF keys # {} /\ found \ keys # {} THEN [err |-> TRUE, map |-> <<>>]
                  ELSE [err |-> FALSE,
                        map |-> [k \in found |->
                                   n.vals[CHOOSE i \in 1 .. Len(n.keys) :
                                            /\ Obj(s, n.keys[i]).text = k
                                            /\ \A j \in i + 1 .. Len(n.keys) :
                                                 Obj(s, n.keys[j]).text # k]]]

\* names: [err, list], list being the parameter names of the sequence node.
names(s, node) ==
  IF node = 0 THEN [err |-> FALSE, list |-> <<>>]
  ELSE LET n == Obj(s, node)
       IN IF ~IsSequenceNode(n) \/ n.tag # "seq" THEN [err |-> TRUE, list |-> <<>>]
          ELSE IF \E i \in 1 .. Len(n.items) : ~is_str_scalar(Obj(s, n.items[i]))
          THEN [err |-> TRUE, list |-> <<>>]
          ELSE [err |-> FALSE,
                list |-> [i \in 1 .. Len(n.items) |-> Obj(s, n.items[i]).text]]

Get(map, key) == IF key \in DOMAIN map THEN map[key] ELSE 0

\* define_func
define_func(s, node, document, scopes) ==
  LET func_map == props(s, node, {"params", "locals", "result"}, FALSE)
  IN IF func_map.err THEN Fail(s, "SchemaError")
     ELSE IF "result" \notin DOMAIN func_map.map THEN Fail(s, "SchemaError")
     ELSE LET params == names(s, Get(func_map.map, "params"))
              locals == props(s, Get(func_map.map, "locals"), {}, TRUE)
          IN IF params.err \/ locals.err THEN Fail(s, "SchemaError")
             ELSE IF Range(params.list) \cap DOMAIN locals.map # {}
             THEN Fail(s, "SchemaError")
             ELSE LET a == Alloc(s, [cls |-> "Func", node |-> node, document |-> document,
                                     params |-> params.list, locals |-> locals.map,
                                     parent_scope |-> scopes,
                                     result |-> func_map.map["result"]])
                  IN Ok(a.s, a.id)

\* eval_expr.lookup_mapping: the value of the first pair whose key is a scalar
\* with that text, 0 when there is none (KeyError).
KeyText(o) == IF is_str_scalar(o) THEN o.text ELSE ""
lookup_mapping(s, mapping, key) ==
  LET n == Obj(s, mapping)
      hits == {i \in 1 .. Len(n.keys) : KeyText(Obj(s, n.keys[i])) = key}
  IN IF hits = {} THEN 0
     ELSE n.vals[CHOOSE i \in hits : \A j \in hits : i <= j]

\* eval_expr.wrap
wrap(s, node) ==
  LET o == Obj(s, node)
  IN IF o.cls = "Func"
     THEN LET a == Alloc(s, [cls |-> "FuncRef", func |-> node]) IN Ok(a.s, HObj(a.id))
     ELSE IF IsSequenceNode(o) THEN Ok(s, LazyMap(node))
     ELSE IF IsMappingNode(o) THEN Ok(s, LazyObj(node, 0))
     ELSE Ok(s, HObj(node))

\* eval_expr.unwrap
unwrap(value) ==
  IF value.h = "LazyObj" /\ value.o # 0 THEN HObj(value.o)
  ELSE IF value.h = "LazyMap" /\ value.m # 0 THEN HObj(value.m)
  ELSE value

\* convert
convert(s, value) ==
  IF value.h = "obj" THEN Ok(s, value.id)
  ELSE IF value.h = "num"
  THEN LET a == Alloc(s, ConvertNative(value.n)) IN Ok(a.s, a.id)
  ELSE IF value.h = "str"
  THEN LET a == Alloc(s, [cls |-> "ScalarNode", tag |-> "str", text |-> value.text])
       IN Ok(a.s, a.id)
  ELSE Fail(s, "ValueError")

\* The operand of + - * as BinaryOp takes it.
Operand(s, value) ==
  IF value.h = "num" THEN value.n
  ELSE IF value.h = "obj" THEN Obj(s, value.id)
  ELSE [cls |-> value.h]

RECURSIVE convert_all(_, _)
convert_all(s, values) ==
  IF values = <<>> THEN Ok(s, <<>>)
  ELSE LET c == convert(s, Head(values))
       IN IF c.err # "" THEN c
          ELSE LET rest == convert_all(c.s, Tail(values))
               IN IF rest.err # "" THEN rest ELSE Ok(rest.s, <<c.val>> \o rest.val)

Interleave(ks, vs) == [i \in 1 .. 2 * Len(ks) |-> IF i % 2 = 1 THEN ks[(i + 1) \div 2] ELSE vs[i \div 2]]
Odds(xs) == [i \in 1 .. Len(xs) \div 2 |-> xs[2 * i - 1]]
Evens(xs) == [i \in 1 .. Len(xs) \div 2 |-> xs[2 * i]]

\* transform, eval, Scopes.transform and Func.call call one another; every such
\* call goes through Do, which runs the body the call names.
RECURSIVE Do(_)

transform(s, node, document, scopes) ==
  Do([op |-> "transform", s |-> s, x |-> node, document |-> document, scopes |-> scopes])
transform_all(s, nodes, document, scopes) ==
  Do([op |-> "transform_all", s |-> s, x |-> nodes, document |-> document, scopes |-> scopes])
Eval(s, ast, document, scopes) ==
  Do([op |-> "Eval", s |-> s, x |-> ast, document |-> document, scopes |-> scopes])
eval_all(s, asts, document, scopes) ==
  Do([op |-> "eval_all", s |-> s, x |-> asts, document |-> document, scopes |-> scopes])
ScopesTransform(s, scope, name, document) ==
  Do([op |-> "ScopesTransform", s |-> s, x |-> name, document |-> document, scopes |-> scope])
FuncCall(s, func, args) ==
  Do([op |-> "FuncCall", s |-> s, x |-> args, document |-> 0, scopes |-> func])

\* Scopes.transform
ScopesTransformBody(s0, scope, name, document) ==
  LET s == Log(s0, [ev |-> "lookup", scope |-> scope, name |-> name])
      sc == ScopeOf(s, scope)
  IN IF name \in DOMAIN sc.items
     THEN transform(s, sc.items[name], document, sc.internal)
     ELSE IF sc.parent # NoScope
     THEN ScopesTransform(s, sc.parent, name, document)
     ELSE Fail(s, "NameNotInScope")

\* load_export without the exports.has check, resolving in the internal scope.
load_export_internal(s, document, name) ==
  ScopesTransform(s, Documents[document].internal, name, document)

\* Document.load_export
load_export(s, document, name) ==
  IF ScopesHas(s, Documents[document].exports, name) # "True"
  THEN Fail(s, "NameNotExported")
  ELSE ScopesTransform(s, Documents[document].exports, name, document)

\* eval_expr.lookup_import
lookup_import(s0, import, name) ==
  LET s == Log(s0, [ev |-> "import_attr", document |-> import, name |-> name])
      r == load_export(s, import, name)
  IN IF r.err # "" THEN r ELSE wrap(r.s, r.val)

\* eval_expr.lookup
lookup(s, name, document, scopes) ==
  LET has == ScopesHas(s, scopes, name)
  IN IF has = "AttributeError" THEN Fail(s, "NoMethodFind")
     ELSE IF has = "True"
     THEN LET t == ScopesTransform(s, scopes, name, document)
          IN IF t.err # "" THEN t ELSE wrap(t.s, t.val)
     ELSE IF name \in DOMAIN Documents[document].imports
     THEN Ok(s, LazyObj(0, Documents[document].imports[name]))
     ELSE Fail(s, "NameNotInScope")

\* Func.call
FuncCallBody(s0, func, args) ==
  LET f == Obj(s0, func)
  IN IF Len(args) # Len(f.params) THEN Fail(s0, "ArityError")
     ELSE LET zipped == [p \in Range(f.params) |->
                           args[CHOOSE i \in 1 .. Len(f.params) :
                                  /\ f.params[i] = p
                                  /\ \A j \in i + 1 .. Len(f.params) : f.params[j] # p]]
              call_locals == zipped @@ f.locals
              id == Len(s0.frames) + 1
              call_scope == Scopes(call_locals, f.parent_scope, NoScope, id)
              s == Log([s0 EXCEPT !.frames = Append(@, call_scope)],
                       [ev |-> "call", func |-> func, scope |-> id, args |-> args])
          IN transform(s, f.result, f.document, id)

\* FuncRef.__call__
FuncRefCall(s0, ref, args) ==
  LET func == Obj(s0, ref).func
      s == Log(s0, [ev |-> "apply", func |-> func, nargs |-> Len(args),
                    proxies |-> \E i \in 1 .. Len(args) : args[i].h \in {"LazyObj", "LazyMap"}])
      c == convert_all(s, args)
  IN IF c.err # "" THEN c ELSE FuncCall(c.s, func, c.val)

\* Attribute access on a value: LazyObj.__getattr__ for the proxies, Python's
\* own AttributeError for everything else (no name used here is an attribute
\* of a node or of a FuncRef).
GetAttr(s0, value, key) ==
  IF value.h # "LazyObj" THEN Fail(s0, "AttributeError")
  ELSE IF value.imp # 0 THEN lookup_import(s0, value.imp, key)
  ELSE LET s == Log(s0, [ev |-> "proxy_get", node |-> value.o])
           found == lookup_mapping(s, value.o, key)
       IN IF found = 0 THEN Fail(s, "KeyError")
          ELSE LET w == wrap(s, found)
               IN Ok(Log(w.s, [ev |-> "proxy_ret", node |-> value.o]), w.val)

\* Indexing a value with a literal index: LazyMap.__getitem__ for the proxy,
\* Sequence.__getitem__ / Mapping.__getitem__ for a realized structure a call
\* returned, else TypeError.
GetItem(s0, value, index) ==
  IF value.h = "obj" /\ Obj(s0, value.id).cls = "Sequence"
  THEN LET items == Obj(s0, value.id).items
       IN IF index + 1 \notin 1 .. Len(items) THEN Fail(s0, "IndexError")
          ELSE Ok(s0, HObj(items[index + 1]))
  ELSE IF value.h = "obj" /\ Obj(s0, value.id).cls = "Mapping" THEN Fail(s0, "KeyError")
  ELSE IF value.h # "LazyMap" THEN Fail(s0, "TypeError")
  ELSE LET s == Log(s0, [ev |-> "proxy_get", node |-> value.m])
           items == Obj(s, value.m).items
       IN IF index + 1 \notin 1 .. Len(items) THEN Fail(s, "IndexError")
          ELSE LET w == wrap(s, items[index + 1])
               IN Ok(Log(w.s, [ev |-> "proxy_ret", node |-> value.m]), w.val)

\* Calling a value: FuncRef.__call__, else TypeError.  The call hands back
\* what transform returned, unwrapped.
Apply(s, value, args) ==
  IF value.h = "obj" /\ Obj(s, value.id).cls = "FuncRef"
  THEN LET r == FuncRefCall(s, value.id, args)
       IN IF r.err # "" THEN r ELSE Ok(r.s, HObj(r.val))
  ELSE Fail(s, "TypeError")

\* l <op> r on two values.
Arith(s, op, l, r) ==
  LET res == BinaryOp(op, Operand(s, l), Operand(s, r))
  IN IF res = TypeError THEN Fail(s, "TypeError")
     ELSE IF IsNumber(res) THEN Ok(s, HNum(res))
     ELSE LET a == Alloc(s, res) IN Ok(a.s, HObj(a.id))

\* eval(expr, {'__builtins__': None}, LazyMap(lookup)): Python evaluates the
\* expression left to right, resolving every free name through lookup.
EvalBody(s, ast, document, scopes) ==
  CASE ast[1] = "name" -> lookup(s, ast[2], document, scopes)
    [] ast[1] = "num" -> Ok(s, HNum(ast[2]))
    [] ast[1] = "str" -> Ok(s, HStr(ast[2]))
    [] ast[1] = "attr" ->
         LET b == Eval(s, ast[2], document, scopes)
         IN IF b.err # "" THEN b ELSE GetAttr(b.s, b.val, ast[3])
    [] ast[1] = "idx" ->
         LET b == Eval(s, ast[2], document, scopes)
         IN IF b.err # "" THEN b ELSE GetItem(b.s, b.val, ast[3])
    [] ast[1] = "call" ->
         LET f == Eval(s, ast[2], document, scopes)
         IN IF f.err # "" THEN f
            ELSE LET a == eval_all(f.s, ast[3], document, scopes)
                 IN IF a.err # "" THEN a ELSE Apply(a.s, f.val, a.val)
    [] ast[1] = "bin" ->
         LET l == Eval(s, ast[3], document, scopes)
         IN IF l.err # "" THEN l
            ELSE LET r == Eval(l.s, ast[4], document, scopes)
                 IN IF r.err # "" THEN r ELSE Arith(r.s, ast[2], l.val, r.val)

EvalAllBody(s, asts, document, scopes) ==
  IF asts = <<>> THEN Ok(s, <<>>)
  ELSE LET v == Eval(s, Head(asts), document, scopes)
       IN IF v.err # "" THEN v
          ELSE LET rest == eval_all(v.s, Tail(asts), document, scopes)
               IN IF rest.err # "" THEN rest ELSE Ok(rest.s, <<v.val>> \o rest.val)

\* eval_expr
eval_expr(s, expr, document, scopes) ==
  LET v == Eval(s, expr, document, scopes)
  IN IF v.err # "" THEN v ELSE convert(v.s, unwrap(v.val))

\* The children left as raw nodes, to be transformed when read.
TransformAllDeferred(s, nodes, document, scopes) == Ok(s, nodes)

\* [local_transform(n) for n in ...]
TransformAllBody(s, nodes, document, scopes) ==
  IF nodes = <<>> THEN Ok(s, <<>>)
  ELSE LET t == transform(s, Head(nodes), document, scopes)
       IN IF t.err # "" THEN t
          ELSE LET rest == transform_all(t.s, Tail(nodes), document, scopes)
               IN IF rest.err # "" THEN rest ELSE Ok(rest.s, <<t.val>> \o rest.val)

Memoize(s, node, scopes, tr) ==
  [s EXCEPT !.memo = (<<node, scopes>> :> tr) @@ @]

\* transform, from the memo lookup on.
TransformBody(s, node, document, scopes) ==
  LET n == Obj(s, node)
  IN IF <<node, scopes>> \in DOMAIN s.memo THEN Ok(s, s.memo[<<node, scopes>>])
     ELSE IF ~IsNode(n) THEN Fail(s, "AttributeError")
     ELSE IF n.tag = "func" THEN define_func(s, node, document, scopes)
     ELSE IF n.tag = "expr"
     THEN IF ~IsScalarNode(n) THEN Fail(s, "SchemaError")
          ELSE eval_expr(Log(s, [ev |-> "eval", node |-> node, scope |-> scopes]),
                         n.ast, document, scopes)
     ELSE IF IsSequenceNode(n)
     THEN LET c == transform_all(s, n.items, document, scopes)
          IN IF c.err # "" THEN c
             ELSE LET a == Alloc(c.s, [cls |-> "Sequence", tag |-> n.tag, items |-> c.val])
                  IN Ok(Memoize(a.s, node, scopes, a.id), a.id)
     ELSE IF IsMappingNode(n)
     THEN LET c == transform_all(s, Interleave(n.keys, n.vals), document, scopes)
          IN IF c.err # "" THEN c
             ELSE LET a == Alloc(c.s, [cls |-> "Mapping", tag |-> n.tag,
                                       keys |-> Odds(c.val), vals |-> Evens(c.val)])
                  IN Ok(Memoize(a.s, node, scopes, a.id), a.id)
     ELSE IF n.tag \in {"int", "float"}
     THEN LET tr == TransformScalar(n)
          IN IF tr = ValueError THEN Fail(s, "ValueError")
             ELSE LET a == Alloc(s, tr) IN Ok(Memoize(a.s, node, scopes, a.id), a.id)
     ELSE Ok(s, node)

\* transform, with its call and its return logged.
TransformLogged(s, node, document, scopes) ==
  LET r == TransformBody(Log(s, [ev |-> "transform", node |-> node, scope |-> scopes]),
                         node, document, scopes)
  IN IF r.err # "" THEN r
     ELSE Ok(Log(r.s, [ev |-> "return", node |-> node, scope |-> scopes, val |-> r.val]),
             r.val)

Do(c) ==
  CASE c.op = "transform" -> TransformLogged(c.s, c.x, c.document, c.scopes)
    [] c.op = "transform_all" -> TransformAllBody(c.s, c.x, c.document, c.scopes)
    [] c.op = "Eval" -> EvalBody(c.s, c.x, c.document, c.scopes)
    [] c.op = "eval_all" -> EvalAllBody(c.s, c.x, c.document, c.scopes)
    [] c.op = "ScopesTransform" -> ScopesTransformBody(c.s, c.scopes, c.x, c.document)
    [] c.op = "FuncCall" -> FuncCallBody(c.s, c.scopes, c.x)

\* The expressions tried as elements of the result sequence of a.yml.
ResultExprs == {
  Name("x"), Name("h"), Name("s"), Name("e"), Name("y"), Name("m"), Name("m2"),
  Name("lst"), Name("inc"), Name("bad"), Name("nores"), Name("badcall"),
  Name("undefined"), Name("lib"),
  Attr(Name("m"), "good"), Attr(Name("m2"), "a"), Attr(Name("m2"), "b"),
  Attr(Name("m2"), "zz"), Idx(Name("lst"), 0), Idx(Name("lst"), 1),
  Call(Name("inc"), <<IntLit(5)>>), Call(Name("inc"), <<IntLit(7)>>),
  Call(Name("inc"), <<>>), Call(Name("inc"), <<IntLit(1), IntLit(2)>>),
  Call(Name("inc"), <<Name("h")>>), Call(Name("inc"), <<FloatLitHalves(3)>>),
  Call(Name("inc"), <<StrLit("a")>>),
  Call(Name("get"), <<Name("m2")>>), Call(Name("get"), <<Name("m2"), Name("m2")>>),
  Call(Name("get"), <<Name("inc")>>),
  Call(Name("cl"), <<>>), Call(Name("sh"), <<IntLit(5)>>), Call(Name("loc"), <<IntLit(2)>>),
  Call(Name("x"), <<>>),
  Attr(Name("lib"), "v"), Attr(Name("lib"), "w"), Attr(Name("lib"), "x"),
  Attr(Name("lib"), "secret"), Call(Attr(Name("lib"), "f"), <<>>),
  Call(Attr(Name("lib"), "g"), <<IntLit(5)>>), Call(Attr(Name("lib"), "g"), <<>>),
  Bin("-", IntLit(5), Name("x")), Bin("*", IntLit(3), Name("x")),
  Bin("+", Name("h"), IntLit(2)), Bin("+", Name("x"), Name("y")),
  Bin("+", Name("s"), IntLit(1))
}

MainDocument == 1

Session == [memo |-> transformed, heap |-> heap, frames |-> frames, log |-> log]

EvalInit ==
  /\ transformed = NewSession.memo /\ heap = NewSession.heap
  /\ frames = NewSession.frames /\ log = NewSession.log
  /\ resultNodes = <<>> /\ children = <<>> /\ status = "idle"

\* The memo table Document.execute hands to transform.
ExecuteSession == [Session EXCEPT !.memo = <<>>]

\* The entries of a document's locals and exports, as a sequence in node order.
RECURSIVE Ascending(_)
Ascending(S) ==
  IF S = {} THEN <<>>
  ELSE LET m == CHOOSE x \in S : \A y \in S : x <= y IN <<m>> \o Ascending(S \ {m})
EntryNodes(d) ==
  {root_map[d].locals[n] : n \in DOMAIN root_map[d].locals}
    \cup {root_map[d].exports[n] : n \in DOMAIN root_map[d].exports}

\* execute transforming every locals and exports entry before the result.
DocumentExecuteEager ==
  /\ status = "idle"
  /\ LET r == transform_all(ExecuteSession, Ascending(EntryNodes(MainDocument)),
                            MainDocument, Documents[MainDocument].internal)
         s == Log(r.s, [ev |-> "transform", node |-> Documents[MainDocument].result,
                        scope |-> Documents[MainDocument].internal])
     IN /\ transformed' = s.memo
        /\ heap' = s.heap
        /\ frames' = s.frames
        /\ log' = s.log
        /\ status' = IF r.err = "" THEN "running" ELSE r.err
  /\ UNCHANGED <<resultNodes, children>>
  /\ UNCHANGED <<loadVars, arithVars>>

\* Document.execute: transform(self.result, self, self.internal, {}) is entered.
DocumentExecute ==
  /\ status = "idle"
  /\ LET s == Log(ExecuteSession,
                  [ev |-> "transform", node |-> Documents[MainDocument].result,
                   scope |-> Documents[MainDocument].internal])
     IN /\ transformed' = s.memo
        /\ heap' = s.heap
        /\ frames' = s.frames
        /\ log' = s.log
  /\ status' = "running"
  /\ UNCHANGED <<resultNodes, children>>
  /\ UNCHANGED <<loadVars, arithVars>>

\* One element of the result sequence is transformed; an error aborts execute.
TransformElement ==
  \E ast \in ResultExprs :
    /\ status = "running"
    /\ Len(resultNodes) < MaxResultLen
    /\ LET a == Alloc(Session, [cls |-> "ScalarNode", tag |-> "expr", ast |-> ast])
           r == transform(a.s, a.id, MainDocument, Documents[MainDocument].internal)
       IN /\ transformed' = r.s.memo
          /\ heap' = r.s.heap
          /\ frames' = r.s.frames
          /\ log' = r.s.log
          /\ resultNodes' = Append(resultNodes, ast)
          /\ IF r.err = ""
             THEN children' = Append(children, r.val) /\ status' = "running"
             ELSE children' = children /\ status' = r.err
    /\ UNCHANGED <<loadVars, arithVars>>

\* Every element is transformed: the Sequence is built, memoized and returned.
FinishResult ==
  /\ status = "running"
  /\ LET node == Documents[MainDocument].result
         scope == Documents[MainDocument].internal
         a == Alloc(Session, [cls |-> "Sequence", tag |-> "seq", items |-> children])
         s == Log(Memoize(a.s, node, scope, a.id),
                  [ev |-> "return", node |-> node, scope |-> scope, val |-> a.id])
     IN /\ transformed' = s.memo
        /\ heap' = s.heap
        /\ frames' = s.frames
        /\ log' = s.log
  /\ status' = "done"
  /\ UNCHANGED <<resultNodes, children>>
  /\ UNCHANGED <<loadVars, arithVars>>

----------------------------------------------------------------------------
(* Specifications *)

LoadIdle ==
  /\ fs = <<>> /\ rootPath = <<>> /\ loaded_documents = <<>> /\ stack = <<>>
  /\ reads = <<>> /\ docs = <<>> /\ loadOutcome = "idle"
ArithIdle == acc = None /\ lastOp = [kind |-> "none"]
EvalIdle ==
  /\ transformed = <<>> /\ heap = <<>> /\ frames = <<>> /\ log = <<>>
  /\ resultNodes = <<>> /\ children = <<>> /\ status = "idle"

LoadNext ==
  \/ Execute
  \/ LoadCircular
  \/ LoadCached
  \/ LoadFresh
  \/ LoadStackExhausted
  \/ ParseReturn

ArithNext ==
  \/ ArithTransform
  \/ ArithConvert
  \/ ArithForward
  \/ ArithReflected

EvalNext ==
  \/ DocumentExecute
  \/ TransformElement
  \/ FinishResult

InitLoad == LoadInit /\ ArithIdle /\ EvalIdle
InitArith == ArithInit /\ LoadIdle /\ EvalIdle
InitEval == EvalInit /\ LoadIdle /\ ArithIdle

SpecLoad == InitLoad /\ [][LoadNext]_vars
SpecArith == InitArith /\ [][ArithNext]_vars
SpecEval == InitEval /\ [][EvalNext]_vars
Spec == SpecEval

----------------------------------------------------------------------------
(* Claims about the loader (SpecLoad) *)

\* C1: whenever some chain of imports starting at the root leads back to a
\* document that is still being loaded, execute ends by raising the
\* import-cycle error: it neither exhausts the stack under ever-growing path
\* keys nor returns a Document.
CycleEndsInImportCycleError ==
  HasCycleFromRoot => loadOutcome \notin {"ok", "StackExhausted"}

\* C9: in a load session that completes, every file was read and parsed at
\* most once and every import of a file received the same Document object,
\* whatever relative path named the file.
DiamondImportsShareOneDocument ==
  loadOutcome = "ok" =>
    /\ \A f \in Files : reads[f] <= 1
    /\ \A i, j \in 1 .. Len(docs) : docs[i].file = docs[j].file => i = j

----------------------------------------------------------------------------
(* Claims about the numeric scalars (SpecArith) *)

\* C7: with a native number n as the left operand and a realized scalar s as
\* the right one, n + s, n - s and n * s are the mathematical sum, difference
\* (n minus s) and product.
ReflectedArithmeticIsMathematical ==
  lastOp.kind = "reflected" =>
    lastOp.res.v = PyArith(lastOp.op, lastOp.l, lastOp.r).v

\* C8: the result of +, -, * on two realized numeric scalars is of Int kind
\* exactly when both operands are, and a document scalar transforms to the
\* kind its tag names: Int-tagged to Int, Float-tagged to Float.
ArithmeticPromotion ==
  /\ (lastOp.kind = "forward" /\ IsNumericScalar(lastOp.r)) =>
       (lastOp.res.tag = "int" <=> (lastOp.l.tag = "int" /\ lastOp.r.tag = "int"))
  /\ lastOp.kind = "transform" => lastOp.res.tag = lastOp.l.tag
  /\ lastOp.kind = "convert" => lastOp.res.tag = lastOp.l.pyty

----------------------------------------------------------------------------
(* Claims about transform and the evaluator (SpecEval) *)

MainInternal == Documents[MainDocument].internal
Succeeded == status \in {"running", "done"}

\* C2: within one execution, every transform of the same node against the
\* same scope returns the identical value reference, and the expression of
\* an expr node is evaluated at most once per (node, scope).
MemoizedTransformIsIdempotent ==
  /\ \A i, j \in 1 .. Len(log) :
       (/\ log[i].ev = "return" /\ log[j].ev = "return"
        /\ log[i].node = log[j].node /\ log[i].scope = log[j].scope)
       => log[i].val = log[j].val
  /\ \A i, j \in 1 .. Len(log) :
       (/\ log[i].ev = "eval" /\ log[j].ev = "eval"
        /\ log[i].node = log[j].node /\ log[i].scope = log[j].scope)
       => i = j

\* Whether name is bound in scope or in one of its ancestors, and the scope
\* of that chain that binds it.
RECURSIVE BoundInChain(_, _)
BoundInChain(scope, name) ==
  \/ name \in DOMAIN frames[scope].items
  \/ frames[scope].parent # NoScope /\ BoundInChain(frames[scope].parent, name)
RECURSIVE BindingScope(_, _)
BindingScope(scope, name) ==
  IF name \in DOMAIN frames[scope].items THEN scope
  ELSE BindingScope(frames[scope].parent, name)

\* C3: in a call of a function whose result is a name, the name resolves to
\* the function's own param or local when it has one, and otherwise to the
\* binding in the scope chain captured at definition time: the call then
\* succeeds and returns the value of that binding.
ClosureResolvesInDefiningScope ==
  \A i \in 1 .. Len(log) :
    log[i].ev = "call" =>
      LET f == heap[log[i].func]
          body == heap[f.result]
          fr == log[i].scope
      IN (body.tag = "expr" /\ body.ast[1] = "name") =>
           IF body.ast[2] \in DOMAIN frames[fr].items
           THEN \E j \in i + 1 .. Len(log) :
                  /\ log[j].ev = "transform"
                  /\ log[j].node = frames[fr].items[body.ast[2]]
                  /\ log[j].scope = fr
           ELSE BoundInChain(f.parent_scope, body.ast[2]) =>
                  LET b == BindingScope(f.parent_scope, body.ast[2])
                      key == <<frames[b].items[body.ast[2]], frames[b].internal>>
                  IN \E j \in i + 1 .. Len(log) :
                       /\ log[j].ev = "return"
                       /\ log[j].node = f.result
                       /\ log[j].scope = fr
                       /\ key \in DOMAIN transformed
                       /\ log[j].val = transformed[key]

\* C4: in a document's internal scope every name of its locals and exports
\* resolves; through an import alias, alias.name resolves exactly the names
\* of the imported document's exports, the exported entry being transformed
\* against the imported document's internal scope, and a name that is only
\* in its locals is refused with nothing evaluated.
ExportsOnlyVisibility ==
  /\ \A k \in 1 .. Len(resultNodes) :
       (/\ resultNodes[k][1] = "name"
        /\ resultNodes[k][2] \in DOMAIN StaticScopes[MainInternal].items)
       => \E i \in 1 .. Len(log) - 1 :
            /\ log[i].ev = "lookup"
            /\ log[i].scope = MainInternal
            /\ log[i].name = resultNodes[k][2]
            /\ log[i + 1].ev = "transform"
            /\ log[i + 1].node = StaticScopes[MainInternal].items[resultNodes[k][2]]
            /\ log[i + 1].scope = MainInternal
  /\ \A i \in 1 .. Len(log) :
       log[i].ev = "import_attr" =>
         IF log[i].name \in DOMAIN root_map[log[i].document].exports
         THEN /\ i + 2 <= Len(log)
              /\ log[i + 1].ev = "lookup"
              /\ log[i + 1].scope = Documents[log[i].document].exports
              /\ log[i + 1].name = log[i].name
              /\ log[i + 2].ev = "transform"
              /\ log[i + 2].node = root_map[log[i].document].exports[log[i].name]
              /\ log[i + 2].scope = Documents[log[i].document].internal
         ELSE /\ i = Len(log)
              /\ status = "NameNotExported"

\* C4 witness: lib.v, exported by lib.yml as (x + 1), was read as 11 from
\* lib.yml's own local x = 10, and lib.secret, a local of lib.yml, was then
\* refused.
ExportReadThenLocalRefused ==
  /\ resultNodes = <<Attr(Name("lib"), "v"), Attr(Name("lib"), "secret")>>
  /\ status = "NameNotExported"
  /\ Len(children) = 1
  /\ heap[children[1]].v = 11 * Scale

\* The raw children of a parsed sequence or mapping node.
RawChildren(node) ==
  IF IsSequenceNode(Arena[node]) THEN Range(Arena[node].items)
  ELSE Range(Arena[node].keys) \cup Range(Arena[node].vals)
IsParsedStructure(node) ==
  /\ node \in 1 .. Len(Arena)
  /\ node # Documents[MainDocument].result
  /\ Arena[node].cls \in {"SequenceNode", "MappingNode"}
  /\ Arena[node].tag \in {"seq", "map"}

\* C5 as claimed: an expression that reads one attribute of a name bound to
\* a mapping transforms only that element, no sibling, and so succeeds
\* whatever the siblings are; (m.good) succeeds.
ProxyReadTransformsOnlyThatElement ==
  (/\ Len(resultNodes) = 1
   /\ resultNodes[1][1] = "attr"
   /\ resultNodes[1][2][1] = "name"
   /\ resultNodes[1][2][2] \in DOMAIN root_map[MainDocument].locals
   /\ IsParsedStructure(root_map[MainDocument].locals[resultNodes[1][2][2]])
   /\ IsMappingNode(Arena[root_map[MainDocument].locals[resultNodes[1][2][2]]]))
  => LET m == Arena[root_map[MainDocument].locals[resultNodes[1][2][2]]]
         siblings == {m.vals[i] : i \in {j \in 1 .. Len(m.keys) :
                                           Arena[m.keys[j]].text # resultNodes[1][3]}}
     IN /\ \A i \in 1 .. Len(log) : log[i].ev = "transform" => log[i].node \notin siblings
        /\ (resultNodes[1][3] \in {Arena[m.keys[j]].text : j \in 1 .. Len(m.keys)}
            => Len(children) = 1)

\* C5 as amended: a sequence or mapping is realized whole, every child
\* against the same scope, before transform returns it; a read through the
\* proxy transforms nothing and hands back the element already realized; so
\* (m.good) fails where a sibling of good fails.
StructureRealizedWholeBeforeProxyRead ==
  /\ \A i \in 1 .. Len(log) :
       (log[i].ev = "return" /\ IsParsedStructure(log[i].node)) =>
         \A c \in RawChildren(log[i].node) :
           \E j \in 1 .. i - 1 :
             /\ log[j].ev = "return"
             /\ log[j].node = c
             /\ log[j].scope = log[i].scope
  /\ \A i \in 1 .. Len(log) :
       log[i].ev = "proxy_get" =>
         /\ heap[log[i].node].cls \in {"Sequence", "Mapping"}
         /\ IF i < Len(log)
            THEN log[i + 1].ev = "proxy_ret" /\ log[i + 1].node = log[i].node
            ELSE status \in {"KeyError", "IndexError"}
  /\ \A k \in 1 .. Len(resultNodes) :
       resultNodes[k] = Attr(Name("m"), "good") =>
         /\ k = Len(resultNodes)
         /\ Len(children) = k - 1
         /\ status = "NameNotInScope"

\* C5 witness: (m2.a) was read through the proxy of the realized m2, then
\* (m.good) failed on m's other field.
ProxyReadThenSiblingFailure ==
  /\ resultNodes = <<Attr(Name("m2"), "a"), Attr(Name("m"), "good")>>
  /\ status = "NameNotInScope"
  /\ Len(children) = 1
  /\ \E i \in 1 .. Len(log) : log[i].ev = "proxy_ret"

\* The names looked up in a scope during the run.
LookedUp(scope) ==
  {log[i].name : i \in {j \in 1 .. Len(log) : log[j].ev = "lookup" /\ log[j].scope = scope}}
\* The documents with every entry that was never looked up removed.
PrunedScopes ==
  [i \in 1 .. Len(StaticScopes) |->
     [StaticScopes[i] EXCEPT
        !.items = [n \in DOMAIN StaticScopes[i].items \cap LookedUp(i) |->
                     StaticScopes[i].items[n]]]]
\* Document.execute on the elements given, from session s.
RECURSIVE Replay(_, _, _)
Replay(s, asts, done) ==
  IF asts = <<>> THEN [s |-> s, children |-> done, err |-> ""]
  ELSE LET a == Alloc(s, [cls |-> "ScalarNode", tag |-> "expr", ast |-> Head(asts)])
           r == transform(a.s, a.id, MainDocument, MainInternal)
       IN IF r.err # "" THEN [s |-> r.s, children |-> done, err |-> r.err]
          ELSE Replay(r.s, Tail(asts), Append(done, r.val))
PrunedRun ==
  Replay(Log([NewSession EXCEPT !.frames = PrunedScopes],
             [ev |-> "transform", node |-> Documents[MainDocument].result,
              scope |-> MainInternal]),
         resultNodes, <<>>)

\* C6: a locals or exports entry is transformed only by a lookup of its
\* name, and the run is the same, in outcome and in every value produced,
\* as that of the documents without the entries no lookup named, whatever
\* evaluating those entries would have done.
UnreferencedEntriesNeverTransformed ==
  /\ \A i \in 1 .. Len(log) :
       (/\ log[i].ev = "transform"
        /\ \E d \in 1 .. Len(root_map) :
             log[i].node \in EntryNodes(d) /\ log[i].scope = Documents[d].internal)
       => /\ i > 1
          /\ log[i - 1].ev = "lookup"
          /\ log[i - 1].name \in DOMAIN frames[log[i - 1].scope].items
          /\ frames[log[i - 1].scope].items[log[i - 1].name] = log[i].node
  /\ status # "idle" =>
       \A run \in {PrunedRun} :
         /\ run.children = children
         /\ run.err = (IF Succeeded THEN "" ELSE status)
         /\ run.s.log = (IF status = "done" THEN SubSeq(log, 1, Len(log) - 1) ELSE log)
         /\ run.s.heap = (IF status = "done" THEN SubSeq(heap, 1, Len(heap) - 1) ELSE heap)

\* C6 witness: execute returned two elements computed from e and inc while
\* bad, nores and badcall, none of which evaluates, were never looked up.
ExecuteDoneWithFailingEntriesUnused ==
  /\ status = "done"
  /\ resultNodes = <<Name("e"), Call(Name("inc"), <<IntLit(5)>>)>>
  /\ Len(children) = 2
  /\ {"bad", "nores", "badcall"} \cap LookedUp(MainInternal) = {}
  /\ {"e", "x", "inc"} \subseteq LookedUp(MainInternal)

\* C10: a call with k arguments fails with the arity error, nothing of the
\* body evaluated, exactly when k differs from the number of params;
\* otherwise the result is evaluated in a fresh frame binding each param to
\* the argument at its position: inc(5) is 6, and inc(7) beside it is 8.
CallChecksArityThenBindsParams ==
  /\ \A i \in 1 .. Len(log) :
       log[i].ev = "apply" =>
         IF log[i].nargs # Len(heap[log[i].func].params)
         THEN i = Len(log) /\ status = "ArityError"
         ELSE /\ i < Len(log)
              /\ log[i + 1].ev = "call"
              /\ log[i + 1].func = log[i].func
              /\ \A k \in 1 .. log[i].nargs :
                   frames[log[i + 1].scope].items[heap[log[i].func].params[k]]
                     = log[i + 1].args[k]
              /\ \A j \in 1 .. Len(log) :
                   (log[j].ev = "call" /\ log[j].scope = log[i + 1].scope) => j = i + 1
  /\ \A k \in 1 .. Len(children) :
       /\ resultNodes[k] = Call(Name("inc"), <<IntLit(5)>>) => heap[children[k]].v = 6 * Scale
       /\ resultNodes[k] = Call(Name("inc"), <<IntLit(7)>>) => heap[children[k]].v = 8 * Scale

====
